---- MODULE Spec2Model ----
(***************************************************************************)
(* A model of src/cli.py (YouTubeMP3Archiver): the filename sanitizer,     *)
(* the title parser and the playlist run of process_playlist / main.       *)
(*                                                                         *)
(* Text is modelled as a sequence of characters, each character a string.  *)
(* Characters outside ASCII are written as ASCII tokens: "EN" and "EM" are *)
(* the en dash and the em dash of the parser's first pattern.              *)
(***************************************************************************)
EXTENDS Naturals, Sequences, FiniteSets

VARIABLES
    fpc,                  \* position of the function-level specifications
    arg,                  \* the string handed to the function under check
    ret,                  \* what the function returned
    pc,                   \* position of main / process_playlist
    custom_name,          \* args.name or ""
    genius,               \* self.genius is configured
    playlist_title,       \* the playlist directory's name under output_dir
    videos,               \* the entries extract_playlist_info returned
    i,                    \* enumerate(videos, 1): the entry being processed
    fs,                   \* directory name under output_dir -> its files
    audio_file,           \* the file download_audio returned for entry i
    metadata,             \* what search_itunes_metadata returned for entry i
    tit2,                 \* the TIT2 text add_metadata_to_mp3 added for entry i
    successful_downloads,
    failed_downloads,
    outcome,              \* history: entry -> "none" | "skipped" | "success" | "failed"
    errs,                 \* history: the steps of the entry in hand that went wrong,
                          \* kept until the loop moves on from that entry
    unlink_failed,        \* history: the temp files whose unlink raised
    cleanup_attempted,    \* history: the cleanup loop of lines 391-395 ran
    interrupted_in        \* history: the entry in progress when the interrupt came

fvars == <<fpc, arg, ret>>
rvars == <<pc, custom_name, genius, playlist_title, videos, i, fs, audio_file,
           metadata, tit2, successful_downloads, failed_downloads, outcome,
           errs, unlink_failed, cleanup_attempted, interrupted_in>>
vars == <<fvars, rvars>>

(***************************************************************************)
(* Bounds of the model.                                                    *)
(***************************************************************************)
MaxNameLen == 4
MaxTitleLen == 4
MaxEntries == 2
MaxUnlinkFail == 1

(***************************************************************************)
(* Text helpers: what Python's str and re do on the strings of the model.  *)
(***************************************************************************)
WhiteSpace == {" ", "\t", "\n"}

\* what '.' matches in a pattern compiled without re.DOTALL
Dot(c) == c # "\n"

AllIn(s, a, b, S) == \A k \in a..b : s[k] \in S

Min(S) == CHOOSE m \in S : \A n \in S : m <= n
Max(S) == CHOOSE m \in S : \A n \in S : m >= n

\* str.strip(chars): the longest run of chars is dropped from both ends
StripSet(s, S) ==
    LET keep == {k \in 1..Len(s) : s[k] \notin S}
    IN  IF keep = {} THEN <<>> ELSE SubSeq(s, Min(keep), Max(keep))

Strip(s) == StripSet(s, WhiteSpace)

\* re.sub(r'\s+', ' ', s): every maximal run of whitespace becomes one space
NotDropped(c) == c # "DROP"

CollapseWs(s) ==
    LET marked == [k \in 1..Len(s) |->
                     IF s[k] \notin WhiteSpace THEN s[k]
                     ELSE IF k > 1 /\ s[k - 1] \in WhiteSpace THEN "DROP" ELSE " "]
    IN  SelectSeq(marked, NotDropped)

\* str.lower() on the letters of the model
LowerChar(c) == CASE c = "A" -> "a" [] c = "B" -> "b" [] OTHER -> c

Lower(s) == [k \in 1..Len(s) |-> LowerChar(s[k])]

\* a in b, for strings
Contains(b, a) ==
    \E k \in 0..(Len(b) - Len(a)) : SubSeq(b, k + 1, k + Len(a)) = a

EndsWith(s, suffix) ==
    Len(s) >= Len(suffix) /\ SubSeq(s, Len(s) - Len(suffix) + 1, Len(s)) = suffix

\* all strings over an alphabet of length at most n
StringsUpTo(A, n) == UNION {[1..k -> A] : k \in 0..n}

(***************************************************************************)
(* clean_filename, lines 108-118.                                          *)
(***************************************************************************)
InvalidChars == {"<", ">", ":", "\"", "/", "\\", "|", "?", "*"}

MaxFilenameLen == 200

Truncate(s) == IF Len(s) > MaxFilenameLen THEN SubSeq(s, 1, MaxFilenameLen) ELSE s

NotInvalid(c) == c \notin InvalidChars

clean_filename(filename) ==
    LET f1 == SelectSeq(filename, NotInvalid)
        f2 == Strip(CollapseWs(f1))
        f3 == StripSet(f2, {"."})
    IN  Truncate(f3)

(***************************************************************************)
(* extract_artist_title, lines 229-251.                                    *)
(***************************************************************************)
DashSep == {"-", "EN", "EM"}
ColonSep == {":"}
PipeSep == {"|"}

patterns == <<DashSep, ColonSep, PipeSep>>

\* RegexSplit with group 1 greedy, (.+) for (.+?): the split moves to the
\* last separator
RegexSplit_Greedy(s, Sep) ==
    LET n == Len(s)
        SepAt(k) == {p \in (k + 1)..(n - 1) :
                        /\ s[p] \in Sep
                        /\ AllIn(s, k + 1, p - 1, WhiteSpace)}
        ks == {k \in 1..n : SepAt(k) # {}}
    IN  IF ks = {} THEN <<>>
        ELSE LET k == Max(ks)
                 p == Max(SepAt(k))
                 w == Max({v \in 0..(n - p - 1) : AllIn(s, p + 1, p + v, WhiteSpace)})
             IN  <<SubSeq(s, 1, k), SubSeq(s, p + w + 1, n)>>

\* re.match(r'^(.+?)\s*[Sep]\s*(.+)$', s): <<>> when there is no match, else
\* <<group 1, group 2>>.  Group 1 is lazy: the shortest prefix after which
\* whitespace, a separator and a non-empty rest follow.  The whitespace
\* after the separator is greedy but leaves the rest at least one character.
RegexSplit(s, Sep) ==
    LET n == Len(s)
        SepAt(k) == {p \in (k + 1)..(n - 1) :
                        /\ s[p] \in Sep
                        /\ AllIn(s, k + 1, p - 1, WhiteSpace)}
        ks == {k \in 1..n : /\ SepAt(k) # {}
                            /\ \A q \in 1..k : Dot(s[q])
                            /\ \A q \in (Max(SepAt(k)) + 1)..n : Dot(s[q])}
    IN  IF ks = {} THEN <<>>
        ELSE LET k == Min(ks)
                 p == Max(SepAt(k))
                 w == Max({v \in 0..(n - p - 1) : AllIn(s, p + 1, p + v, WhiteSpace)})
             IN  <<SubSeq(s, 1, k), SubSeq(s, p + w + 1, n)>>

\* re.sub(r'\s*\(.*?\)\s*$', '', t) for the bracket pair (open, close): the
\* leftmost place from which whitespace, open, anything, close, whitespace
\* and the end of the string follow is where the text is cut.
RemoveSuffix(t, open, close) ==
    LET n == Len(t)
        starts == {st \in 1..n :
                     \E a \in st..n : \E b \in (a + 1)..n :
                        /\ AllIn(t, st, a - 1, WhiteSpace)
                        /\ t[a] = open
                        /\ \A q \in (a + 1)..(b - 1) : Dot(t[q])
                        /\ t[b] = close
                        /\ AllIn(t, b + 1, n, WhiteSpace)}
    IN  IF starts = {} THEN t ELSE SubSeq(t, 1, Min(starts) - 1)

RemoveSuffixes(title) ==
    RemoveSuffix(RemoveSuffix(title, "(", ")"), "[", "]")

RECURSIVE TryPatterns(_, _)
TryPatterns(s, n) ==
    IF n > Len(patterns) THEN <<<<>>, s>>
    ELSE LET m == RegexSplit(s, patterns[n])
         IN  IF m # <<>>
             THEN <<Strip(m[1]), RemoveSuffixes(Strip(m[2]))>>
             ELSE TryPatterns(s, n + 1)

\* <<artist, title>>
extract_artist_title(video_title) == TryPatterns(Strip(video_title), 1)

(***************************************************************************)
(* The run of main / process_playlist is idle in the function-level        *)
(* specifications, and the function-level variables are idle in the run.   *)
(***************************************************************************)
RunIdle ==
    /\ pc = "idle"
    /\ custom_name = <<>>
    /\ genius = FALSE
    /\ playlist_title = <<>>
    /\ videos = <<>>
    /\ i = 0
    /\ fs = <<>>
    /\ audio_file = <<>>
    /\ metadata = <<>>
    /\ tit2 = <<>>
    /\ successful_downloads = 0
    /\ failed_downloads = <<>>
    /\ outcome = <<>>
    /\ errs = <<>>
    /\ unlink_failed = {}
    /\ cleanup_attempted = FALSE
    /\ interrupted_in = 0

FunIdle == fpc = "idle" /\ arg = <<>> /\ ret = <<>>

(***************************************************************************)
(* clean_filename applied to every short string, bare and behind a prefix  *)
(* that brings it to the length limit.                                     *)
(***************************************************************************)
CleanChars == {"a", " ", "\t", ".", ":"}

LongPrefix == [k \in 1..(MaxFilenameLen - 2) |-> "a"]

CleanInputs ==
    {pre \o t : pre \in {<<>>, LongPrefix}, t \in StringsUpTo(CleanChars, MaxNameLen)}

InitClean == fpc = "call" /\ arg \in CleanInputs /\ ret = <<>> /\ RunIdle

CallCleanFilename ==
    /\ fpc = "call"
    /\ ret' = clean_filename(arg)
    /\ fpc' = "returned"
    /\ UNCHANGED <<arg, rvars>>

NextClean == CallCleanFilename

SpecClean == InitClean /\ [][NextClean]_vars

(***************************************************************************)
(* extract_artist_title applied to every short title, bare and followed by *)
(* two bracket groups.                                                     *)
(***************************************************************************)
TitleChars == {"a", " ", "-", ":", "|", "(", ")", "[", "]"}

\* the bracket groups a title may end with
TrailingGroups ==
    {<<>>, <<"(", ")", "(", ")">>, <<"(", ")", "[", "]">>, <<"[", "]", "(", ")">>}

TitleInputs ==
    {t \o g : t \in StringsUpTo(TitleChars, MaxTitleLen), g \in TrailingGroups}

InitTitle == fpc = "call" /\ arg \in TitleInputs /\ ret = <<>> /\ RunIdle

CallExtractArtistTitle ==
    /\ fpc = "call"
    /\ ret' = extract_artist_title(arg)
    /\ fpc' = "returned"
    /\ UNCHANGED <<arg, rvars>>

NextTitle == CallExtractArtistTitle

SpecTitle == InitTitle /\ [][NextTitle]_vars

(***************************************************************************)
(* Claims about the two functions.                                         *)
(***************************************************************************)

\* C6: for every input s, clean_filename(s) holds none of < > : " / \ | ? *,
\* is at most 200 characters long, neither starts nor ends with a dot or
\* whitespace, and is a fixed point of clean_filename.
C6_CleanFilenameSanitized ==
    fpc = "returned" =>
        /\ \A k \in 1..Len(ret) : ret[k] \notin InvalidChars
        /\ Len(ret) <= MaxFilenameLen
        /\ ret # <<>> => /\ ret[1] \notin WhiteSpace \cup {"."}
                         /\ ret[Len(ret)] \notin WhiteSpace \cup {"."}
        /\ clean_filename(ret) = ret

\* The parse the claim C7 describes: the same split, and of the title's
\* trailing bracket groups exactly the last one removed.
LastGroupStart(t, open, close) ==
    Max({a \in 1..(Len(t) - 1) : t[a] = open})

RStrip(t) ==
    LET keep == {k \in 1..Len(t) : t[k] \notin WhiteSpace}
    IN  IF keep = {} THEN <<>> ELSE SubSeq(t, 1, Max(keep))

RemoveOneSuffix(t, open, close) ==
    IF /\ t # <<>>
       /\ t[Len(t)] = close
       /\ \E a \in 1..(Len(t) - 1) : t[a] = open
    THEN RStrip(SubSeq(t, 1, LastGroupStart(t, open, close) - 1))
    ELSE t

\* at most one bracket level open at a time, and none open at the end
RECURSIVE Depth(_, _, _)
Depth(t, open, close) ==
    IF t = <<>> THEN 0
    ELSE LET d == Depth(SubSeq(t, 1, Len(t) - 1), open, close)
             c == t[Len(t)]
         IN  IF d > 1 THEN 2
             ELSE IF c = open THEN d + 1
             ELSE IF c = close THEN (IF d = 0 THEN 2 ELSE d - 1)
             ELSE d

WellBracketed(t) == Depth(t, "(", ")") = 0 /\ Depth(t, "[", "]") = 0

FirstSepPos(t, Sep) == {p \in 2..(Len(t) - 1) : t[p] \in Sep}

\* the separator class that wins on the trimmed title t, 0 when none occurs
Winner(t) ==
    IF \E n \in 1..Len(patterns) : FirstSepPos(t, patterns[n]) # {}
    THEN Min({n \in 1..Len(patterns) : FirstSepPos(t, patterns[n]) # {}})
    ELSE 0

SideA(t) == Strip(SubSeq(t, 1, Min(FirstSepPos(t, patterns[Winner(t)])) - 1))

SideB(t) == Strip(SubSeq(t, Min(FirstSepPos(t, patterns[Winner(t)])) + 1, Len(t)))

CutAtFirst(t, open, close) ==
    IF /\ t # <<>>
       /\ t[Len(t)] = close
       /\ \E a \in 1..(Len(t) - 1) : t[a] = open
    THEN RStrip(SubSeq(t, 1, Min({a \in 1..(Len(t) - 1) : t[a] = open}) - 1))
    ELSE t

Null == [available |-> FALSE, title |-> <<>>, has_url |-> FALSE]
\* download_audio returned None
NoFile == [name |-> <<>>, src |-> 0, by |-> 0]
\* search_itunes_metadata returned None
NoMetadata == [found |-> FALSE, title |-> <<>>, artist |-> <<>>, artwork_url |-> FALSE]
\* the file carries no TIT2 frame saved by this run
NoTag == <<"no TIT2">>

Temp == <<"t", "e", "m", "p">>                  \* self.temp_dir = output_dir / "temp"
Mp3Ext == <<".", "m", "p", "3">>
InfoExt == <<".", "i", "n", "f", "o", ".", "j", "s", "o", "n">>
PartExt == <<".", "p", "a", "r", "t">>

\* the titles of the playlists of the model
T_AB == <<"a", "-", "b">>
T_Cx == <<"a", ":", "(", "x", ")">>

\* an entry: its title, and whether it carries 'webpage_url' or 'id'
Entry(t, u) == [available |-> TRUE, title |-> t, has_url |-> u]

Entries == {Null, Entry(T_AB, TRUE), Entry(T_AB, FALSE), Entry(T_Cx, TRUE)}

Playlists == UNION {[1..n -> Entries] : n \in 1..MaxEntries}

\* playlist_info.get('title', ...) of the model's playlist, and the --name values
RawPlaylistTitle == <<"m", ":", "i", "x">>
CustomNames == {<<>>, <<"t", "e", "m", "p", ".">>}

\* what an earlier, interrupted run may have left in the temporary directory
Leftover == [name |-> <<"A", "-", "b", "2">> \o Mp3Ext, src |-> 0, by |-> 0]

\* the first catalog result of the model: trackName, artistName
CanonTitle == <<"b">>
CanonArtist == <<"a">>

N == Len(videos)
K == Cardinality({e \in 1..N : ~videos[e].available})

\* pathlib: Path.stem, the name without its last suffix
Stem(name) ==
    LET dots == {k \in 2..Len(name) : name[k] = "."}
    IN  IF dots = {} THEN name ELSE SubSeq(name, 1, Max(dots) - 1)

\* output_path.glob("*.mp3")
Mp3Files(dir) == {f \in dir : EndsWith(f.name, Mp3Ext)}

\* os.path.getctime orders the files of the directory by the download that
\* wrote them: a download of this run is newer than a leftover (src 0)
Ctime(f) == f.src

\* yt-dlp's '%(title)s.%(ext)s': the characters no file name may hold are
\* replaced by full-width look-alikes ("FW:" is the full-width colon)
YtdlpChar(c) ==
    CASE c = ":" -> "FW:" [] c = "|" -> "FW|" [] c = "/" -> "FW/" [] c = "?" -> "FW?"
      [] c = "*" -> "FW*" [] c = "<" -> "FW<" [] c = ">" -> "FW>" [] c = "\"" -> "FW2"
      [] c = "\\" -> "FW\\" [] OTHER -> c

YtdlpName(title) == [k \in 1..Len(title) |-> YtdlpChar(title[k])]

\* writing a file under a name replaces the file of that name
WriteFile(dir, f) == {g \in dir : g.name # f.name} \cup {f}

\* lines 153-161 of download_audio: the first file of the glob whose stem
\* holds the title, in whatever order the directory is listed; else the
\* most recently created mp3; else None (the function falls off its end)
FoundFiles(dir, title) ==
    LET mp3 == Mp3Files(dir)
        hit == {f \in mp3 : Contains(Lower(Stem(f.name)), Lower(title))}
    IN  IF hit # {} THEN hit
        ELSE IF mp3 # {} THEN {f \in mp3 : \A g \in mp3 : Ctime(g) <= Ctime(f)}
        ELSE {NoFile}

\* lines 185-195: the dict's 'title' and 'artist' are always set,
\* to the catalog's value or to the value searched for
MetadataResults(title, artist) ==
    {[found |-> TRUE, title |-> title, artist |-> artist, artwork_url |-> FALSE],
     [found |-> TRUE, title |-> CanonTitle, artist |-> CanonArtist, artwork_url |-> TRUE]}

\* lines 264-271 and 361-366: metadata.get('title', title), metadata.get('artist', artist)
MergedTitle(video_title, md) ==
    IF md.found THEN md.title ELSE extract_artist_title(video_title)[2]

MergedArtist(video_title, md) ==
    IF md.found THEN md.artist ELSE extract_artist_title(video_title)[1]

\* lines 368-373
FinalName(video_title, md) ==
    LET final_artist == MergedArtist(video_title, md)
        final_title == MergedTitle(video_title, md)
    IN  clean_filename(IF final_artist # <<>>
                       THEN final_artist \o <<" ", "-", " ">> \o final_title \o Mp3Ext
                       ELSE final_title \o Mp3Ext)

InEntry == pc \in {"downloaded", "resolved", "tagged"}

Init ==
    /\ FunIdle
    /\ pc = "start"
    /\ custom_name \in CustomNames
    /\ genius \in BOOLEAN
    /\ playlist_title = <<>>
    /\ videos = <<>>
    /\ i = 0
    /\ fs \in {[d \in {Temp} |-> left] : left \in {{}, {Leftover}}}
    /\ audio_file = NoFile
    /\ metadata = NoMetadata
    /\ tit2 = NoTag
    /\ successful_downloads = 0
    /\ failed_downloads = <<>>
    /\ outcome = <<>>
    /\ errs = {}
    /\ unlink_failed = {}
    /\ cleanup_attempted = FALSE
    /\ interrupted_in = 0

\* lines 322-335: the playlist is extracted, its directory made, the counters set
ExtractPlaylistInfo ==
    /\ pc = "start"
    /\ \E vs \in Playlists :
         LET pt == IF custom_name # <<>> THEN clean_filename(custom_name)
                   ELSE clean_filename(RawPlaylistTitle)
         IN  /\ videos' = vs
             /\ playlist_title' = pt
             /\ fs' = [d \in {Temp, pt} |-> IF d = Temp THEN fs[Temp] ELSE {}]
             /\ outcome' = [e \in 1..Len(vs) |-> "none"]
    /\ i' = 1
    /\ pc' = "loop"
    /\ UNCHANGED <<fvars, custom_name, genius, audio_file, metadata, tit2,
                   successful_downloads, failed_downloads, errs, unlink_failed,
                   cleanup_attempted, interrupted_in>>

\* lines 134-136, 412-414 and 460-462: extraction raises, the run ends with an error
ExtractionFails ==
    /\ pc = "start"
    /\ pc' = "error"
    /\ UNCHANGED <<fvars, custom_name, genius, playlist_title, videos, i, fs,
                   audio_file, metadata, tit2, successful_downloads, failed_downloads,
                   outcome, errs, unlink_failed, cleanup_attempted, interrupted_in>>

\* SkipUnavailable with the unavailable entry counted among the failures
SkipUnavailable_Counted ==
    /\ pc = "loop" /\ i <= N /\ ~videos[i].available
    /\ outcome' = [outcome EXCEPT ![i] = "skipped"]
    /\ failed_downloads' = Append(failed_downloads, videos[i].title)
    /\ i' = i + 1
    /\ errs' = {}
    /\ UNCHANGED <<fvars, pc, custom_name, genius, playlist_title, videos, fs,
                   audio_file, metadata, tit2, successful_downloads,
                   unlink_failed, cleanup_attempted, interrupted_in>>

\* lines 338-339
SkipUnavailable ==
    /\ pc = "loop" /\ i <= N /\ ~videos[i].available
    /\ outcome' = [outcome EXCEPT ![i] = "skipped"]
    /\ i' = i + 1
    /\ errs' = {}
    /\ UNCHANGED <<fvars, pc, custom_name, genius, playlist_title, videos, fs,
                   audio_file, metadata, tit2, successful_downloads, failed_downloads,
                   unlink_failed, cleanup_attempted, interrupted_in>>

\* RecordFailed with the error left to reach line 412: the run ends
RecordFailed_Abort(step, sofar) ==
    /\ pc' = "error"
    /\ errs' = sofar \cup {step}
    /\ audio_file' = NoFile
    /\ metadata' = NoMetadata
    /\ tit2' = NoTag
    /\ UNCHANGED <<failed_downloads, outcome, i, successful_downloads>>

\* lines 349-351 and 385-388: the entry is recorded as failed, on to the next
RecordFailed(step, sofar) ==
    /\ failed_downloads' = Append(failed_downloads, videos[i].title)
    /\ outcome' = [outcome EXCEPT ![i] = "failed"]
    /\ errs' = sofar \cup {step}
    /\ i' = i + 1
    /\ pc' = "loop"
    /\ audio_file' = NoFile
    /\ metadata' = NoMetadata
    /\ tit2' = NoTag
    /\ UNCHANGED <<successful_downloads>>

\* lines 344-351 with download_audio, lines 138-165
DownloadAudio ==
    /\ pc = "loop" /\ i <= N /\ videos[i].available
    /\ LET title == videos[i].title
           stem == YtdlpName(title)
           mp3 == [name |-> stem \o Mp3Ext, src |-> i, by |-> 0]
           info == [name |-> stem \o InfoExt, src |-> i, by |-> 0]
           part == [name |-> stem \o PartExt, src |-> i, by |-> 0]
       IN  \/ \* line 141 raises KeyError, line 164 raises on the unbound title
              /\ ~videos[i].has_url
              /\ RecordFailed("download", {})
              /\ UNCHANGED fs
           \/ \* ydl.download raises, with or without a partial file left behind
              /\ videos[i].has_url
              /\ \E left \in {{}, {part}} :
                    fs' = [fs EXCEPT ![Temp] = @ \cup left]
              /\ RecordFailed("download", {})
           \/ \* ydl.download returns: the mp3 and its info file are in place
              /\ videos[i].has_url
              /\ LET dir == WriteFile(WriteFile(fs[Temp], mp3), info)
                 IN  /\ fs' = [fs EXCEPT ![Temp] = dir]
                     /\ \E f \in FoundFiles(dir, title) :
                           IF f = NoFile \/ f \notin dir
                           THEN RecordFailed("download", {})
                           ELSE /\ audio_file' = f
                                /\ errs' = {}
                                /\ pc' = "downloaded"
                                /\ UNCHANGED <<i, metadata, tit2, successful_downloads,
                                               failed_downloads, outcome>>
    /\ UNCHANGED <<fvars, custom_name, genius, playlist_title, videos,
                   unlink_failed, cleanup_attempted, interrupted_in>>

\* SearchItunesMetadata without the try of line 169: a failed lookup reaches
\* the handler of line 385
SearchItunesMetadata_Raises ==
    /\ pc = "downloaded"
    /\ LET at == extract_artist_title(videos[i].title)
       IN  \/ /\ RecordFailed("meta", errs)
              /\ UNCHANGED <<fs>>
           \/ \E r \in MetadataResults(at[2], at[1]) :
                 /\ metadata' = r
                 /\ errs' = errs
                 /\ pc' = "resolved"
                 /\ UNCHANGED <<i, fs, audio_file, tit2, successful_downloads,
                                failed_downloads, outcome>>
    /\ UNCHANGED <<fvars, custom_name, genius, playlist_title, videos,
                   unlink_failed, cleanup_attempted, interrupted_in>>

\* lines 353-355 with search_itunes_metadata, lines 167-199
SearchItunesMetadata ==
    /\ pc = "downloaded"
    /\ LET at == extract_artist_title(videos[i].title)
       IN  \/ \* the request raises or times out, or the catalog has no result
              /\ metadata' = NoMetadata
              /\ errs' = errs \cup {"meta"}
           \/ \E r \in MetadataResults(at[2], at[1]) :
                 /\ metadata' = r
                 /\ errs' = errs
    /\ pc' = "resolved"
    /\ UNCHANGED <<fvars, custom_name, genius, playlist_title, videos, i, fs,
                   audio_file, tit2, successful_downloads, failed_downloads,
                   outcome, unlink_failed, cleanup_attempted, interrupted_in>>

\* line 358 with add_metadata_to_mp3, lines 253-316, download_cover_art,
\* lines 201-213, and get_lyrics, lines 215-227
AddMetadataToMp3 ==
    /\ pc = "resolved"
    /\ LET title == MergedTitle(videos[i].title, metadata)
           artist == MergedArtist(videos[i].title, metadata)
           wants_cover == metadata.found /\ metadata.artwork_url
           wants_lyrics == genius /\ artist # <<>> /\ title # <<>>
       IN  \/ \* opening the tags raises: nothing is written
              /\ errs' = errs \cup {"tag"}
              /\ tit2' = NoTag
           \/ \E cover_ok \in {TRUE, ~wants_cover}, lyrics_ok \in {TRUE, ~wants_lyrics},
                 save_ok \in BOOLEAN :
                 /\ errs' = errs \cup (IF cover_ok THEN {} ELSE {"cover"})
                                  \cup (IF lyrics_ok THEN {} ELSE {"lyrics"})
                                  \cup (IF save_ok THEN {} ELSE {"tag"})
                 /\ tit2' = IF save_ok THEN title ELSE NoTag
    /\ pc' = "tagged"
    /\ UNCHANGED <<fvars, custom_name, genius, playlist_title, videos, i, fs,
                   audio_file, metadata, successful_downloads, failed_downloads,
                   outcome, unlink_failed, cleanup_attempted, interrupted_in>>

\* lines 360-388: the final name, the move, the count
MoveFile ==
    /\ pc = "tagged"
    /\ LET placed == [name |-> FinalName(videos[i].title, metadata),
                      src |-> audio_file.src, by |-> i]
           taken == [d \in DOMAIN fs |->
                       IF d = Temp THEN fs[d] \ {audio_file} ELSE fs[d]]
       IN  \/ \* shutil.move renames the file over whatever holds the final name
              /\ fs' = [taken EXCEPT ![playlist_title] = WriteFile(@, placed)]
              /\ successful_downloads' = successful_downloads + 1
              /\ outcome' = [outcome EXCEPT ![i] = "success"]
              /\ i' = i + 1
              /\ pc' = "loop"
              /\ audio_file' = NoFile
              /\ metadata' = NoMetadata
              /\ tit2' = NoTag
              /\ UNCHANGED <<failed_downloads, errs>>
           \/ \* shutil.move raises: the file stays where it is
              /\ RecordFailed("move", errs)
              /\ UNCHANGED fs
    /\ UNCHANGED <<fvars, custom_name, genius, playlist_title, videos,
                   unlink_failed, cleanup_attempted, interrupted_in>>

\* CleanupTemp with glob("*.mp3") for glob("*"): the other files stay
CleanupTemp_Mp3Only ==
    /\ pc = "loop" /\ i > N
    /\ \E kept \in SUBSET Mp3Files(fs[Temp]) :
          /\ Cardinality(kept) <= MaxUnlinkFail
          /\ fs' = [fs EXCEPT ![Temp] = kept \cup (@ \ Mp3Files(@))]
          /\ unlink_failed' = kept
    /\ cleanup_attempted' = TRUE
    /\ errs' = {}
    /\ pc' = "summary"
    /\ UNCHANGED <<fvars, custom_name, genius, playlist_title, videos, i,
                   audio_file, metadata, tit2, successful_downloads,
                   failed_downloads, outcome, interrupted_in>>

\* lines 390-395: every file of the temporary directory is unlinked, and
\* an unlink that raises is passed over
CleanupTemp ==
    /\ pc = "loop" /\ i > N
    /\ \E kept \in SUBSET fs[Temp] :
          /\ Cardinality(kept) <= MaxUnlinkFail
          /\ fs' = [fs EXCEPT ![Temp] = kept]
          /\ unlink_failed' = kept
    /\ cleanup_attempted' = TRUE
    /\ errs' = {}
    /\ pc' = "summary"
    /\ UNCHANGED <<fvars, custom_name, genius, playlist_title, videos, i,
                   audio_file, metadata, tit2, successful_downloads,
                   failed_downloads, outcome, interrupted_in>>

\* lines 397-410 and 454-455
Summary ==
    /\ pc = "summary"
    /\ pc' = "done"
    /\ UNCHANGED <<fvars, custom_name, genius, playlist_title, videos, i, fs,
                   audio_file, metadata, tit2, successful_downloads, failed_downloads,
                   outcome, errs, unlink_failed, cleanup_attempted, interrupted_in>>

\* KeyboardInterrupt is no Exception: neither line 385 nor line 412 catches
\* it, and main, lines 457-459, prints and exits.  What the process held in
\* memory is gone; the directories and the history remain.
Interrupt ==
    /\ pc \in {"loop", "downloaded", "resolved", "tagged", "summary"}
    /\ interrupted_in' =
          IF InEntry \/ (pc = "loop" /\ i <= N /\ videos[i].available) THEN i ELSE 0
    /\ pc' = "cancelled"
    /\ audio_file' = NoFile
    /\ metadata' = NoMetadata
    /\ tit2' = NoTag
    /\ errs' = {}
    /\ successful_downloads' = 0
    /\ failed_downloads' = <<>>
    /\ UNCHANGED <<fvars, custom_name, genius, playlist_title, videos, i, fs,
                   outcome, unlink_failed, cleanup_attempted>>

Next ==
    \/ ExtractPlaylistInfo
    \/ ExtractionFails
    \/ SkipUnavailable
    \/ DownloadAudio
    \/ SearchItunesMetadata
    \/ AddMetadataToMp3
    \/ MoveFile
    \/ CleanupTemp
    \/ Summary
    \/ Interrupt

Spec == Init /\ [][Next]_vars

(***************************************************************************)
(* Claims about the run.                                                   *)
(***************************************************************************)
LoopFinished == pc \in {"summary", "done"} \/ (pc = "loop" /\ i > N)

Recorded(what) == {e \in 1..N : outcome[e] = what}

\* C1: when process_playlist has finished its entry loop over N entries of
\* which K are unavailable, successful_downloads + len(failed_downloads) is
\* N - K: every available entry is recorded once, as a success or as a
\* failure, and an unavailable one as neither.
C1_OutcomesAccounted ==
    LoopFinished =>
        /\ successful_downloads + Len(failed_downloads) + K = N
        /\ successful_downloads = Cardinality(Recorded("success"))
        /\ Len(failed_downloads) = Cardinality(Recorded("failed"))
        /\ \A e \in 1..N :
             videos[e].available <=> outcome[e] \in {"success", "failed"}

\* a finished run with an unavailable entry and a recorded one
C1_Witness ==
    /\ pc = "done"
    /\ K = 1
    /\ successful_downloads + Len(failed_downloads) = 1

\* the entry the loop has just moved on from, and what went wrong in it
JustFinished == pc = "loop" /\ i > 1 /\ videos[i - 1].available

\* C2 as claimed: an error in any step of an entry (download, metadata
\* resolution, tagging, the move) records the entry as failed, and the run
\* goes on with the next entry.
C2_AnyStepErrorFails ==
    JustFinished /\ errs \cap {"download", "meta", "tag", "move"} # {}
        => outcome[i - 1] = "failed"

\* C2 amended: a media fetch that yields no file (an exception inside
\* download_audio included) or a move that raises records the entry as
\* failed; an exception during metadata resolution or tagging is caught
\* where it is raised and does not; in every case the run goes on with the
\* next entry in playlist order, no entry's failure ends the run, and the
\* run reaches the summary only with every entry handled.
C2_FetchOrMoveErrorFails ==
    /\ JustFinished /\ errs \cap {"download", "move"} # {} => outcome[i - 1] = "failed"
    /\ JustFinished /\ errs \cap {"download", "move"} = {} => outcome[i - 1] = "success"
    /\ pc = "error" => i = 0
    /\ \A e \in 1..N : outcome[e] # "none" <=> e < i
    /\ pc \in {"summary", "done"} => i = N + 1

\* the first entry failed at its move and the second was still processed
C2_Witness ==
    /\ pc = "loop"
    /\ outcome = <<"failed", "success">>
    /\ \E f \in fs[Temp] : f.src = 1 /\ EndsWith(f.name, Mp3Ext)

\* C3: for an entry whose media fetch and move both succeed, a failure of
\* the metadata lookup, of the cover-art fetch or of the lyrics fetch leaves
\* the entry recorded as a success.
C3_LookupFailureKeepsSuccess ==
    /\ JustFinished
    /\ errs \cap {"meta", "cover", "lyrics"} # {}
    /\ errs \cap {"download", "move"} = {}
    => /\ outcome[i - 1] = "success"
       /\ successful_downloads = Cardinality(Recorded("success"))

\* an entry whose cover-art fetch and lyrics fetch both failed is a success
C3_Witness ==
    /\ JustFinished
    /\ {"cover", "lyrics"} \subseteq errs
    /\ outcome[i - 1] = "success"

\* C4 as claimed: when the run reaches the summary, the temporary
\* directory holds no file.
C4_TempEmptyAtSummary ==
    pc \in {"summary", "done"} => fs[Temp] = {}

\* C4 amended: when the run reaches the summary, the temporary directory
\* holds no file but those whose deletion raised (and was passed over):
\* it is empty if no deletion failed, however many entries failed and at
\* whichever step.
C4_TempHoldsOnlyUndeletable ==
    pc \in {"summary", "done"} =>
        /\ cleanup_attempted
        /\ fs[Temp] \subseteq unlink_failed
        /\ unlink_failed = {} => fs[Temp] = {}

\* a finished run with a failed entry, a success and an empty temporary
\* directory
C4_Witness ==
    /\ pc = "done"
    /\ Recorded("failed") # {}
    /\ Recorded("success") # {}
    /\ unlink_failed = {}
    /\ fs[Temp] = {}

\* C5: an interrupt that arrives while an entry is being processed ends
\* the run only after that entry has completed or been recorded as failed,
\* and the cleanup of the temporary directory is still attempted.
C5_InterruptWaitsForEntry ==
    pc = "cancelled" /\ interrupted_in # 0 =>
        /\ outcome[interrupted_in] \in {"success", "failed"}
        /\ cleanup_attempted

\* C8: for every entry that reaches tagging and filename derivation the
\* merged title is not empty, so neither the title tag nor the title part
\* of the final filename is.
C8_MergedTitleNonEmpty ==
    pc = "tagged" =>
        /\ MergedTitle(videos[i].title, metadata) # <<>>
        /\ tit2 # <<>>

\* C9: at the end of a run that processed all entries, the playlist
\* directory holds one file of its own for every entry counted as a success.
C9_OneFilePerSuccess ==
    pc = "done" =>
        \A e \in Recorded("success") : \E f \in fs[playlist_title] : f.by = e

\* C10: the file process_playlist tags and moves for an entry is the file
\* that entry's own download produced.
C10_OwnFile ==
    InEntry => audio_file.src = i

====
